---- MODULE Spec2Model ----
(***************************************************************************)
(* FRI verifier gadget of recursive_redshift/fri_verifier.rs:              *)
(* verify_single_proof_round, step by step, on one FriUtilsGadget, and     *)
(* verify_proof.  Field elements are integers modulo a small modulus, bit  *)
(* slices are sequences of 0/1 with the least significant bit first.       *)
(***************************************************************************)
EXTENDS Integers, Sequences, FiniteSets, TLC

\* Bounds of the explored inputs.
MaxCF == 2
MaxLog == 3
MaxUpper == 2
MaxLayers == 2

\* The scalar field E::Fr, cut down to a small ring.
Fr == 0 .. 2
Modulus == Cardinality(Fr)

VARIABLES
    input,                  \* the arguments of verify_single_proof_round
    log_domain_size,        \* fri_helper's tracked log2 of the domain size
    pc,                     \* position inside the round; done / err / panic at its end
    natural_index,          \* the local slice natural_index
    coset_idx,              \* coset index of the top layer (line 76)
    idx,                    \* position of the upper-layer loop (line 83)
    layer,                  \* fold-loop iterations completed (line 142)
    final_result,           \* the accumulated Boolean
    previous_layer_element, \* the last interpolant
    result,                 \* << b >> once Ok(b) is returned, << >> otherwise
    checks,                 \* every check value ANDed in so far, in order
    trace,                  \* per fold step: what the step used and produced
    interp_challenges,      \* the challenges argument of every interpolation call
    advances,               \* number of next_domain calls of this run
    start_log,              \* fri_helper's log domain size when this run began
    run,                    \* 1 for the first call on the helper, 2 for the second
    first_run,              \* outcome of the first call, kept for the second
    vp_result               \* << b >> once verify_proof returned Ok(b)

vars == << input, log_domain_size, pc, natural_index, coset_idx, idx, layer,
           final_result, previous_layer_element, result, checks, trace,
           interp_challenges, advances, start_log, run, first_run, vp_result >>

----------------------------------------------------------------------------
\* Arithmetic primitives.

RECURSIVE Pow2(_)
Pow2(e) == IF e = 0 THEN 1 ELSE 2 * Pow2(e - 1)

RECURSIVE BitsToNat(_)
BitsToNat(bits) ==
    IF bits = << >> THEN 0 ELSE Head(bits) + 2 * BitsToNat(Tail(bits))

RECURSIVE PowMod(_, _)
PowMod(base, e) == IF e = 0 THEN 1 % Modulus ELSE (base * PowMod(base, e - 1)) % Modulus

RECURSIVE SumMod(_)
SumMod(s) == IF s = << >> THEN 0 ELSE (Head(s) + SumMod(Tail(s))) % Modulus

Min(a, b) == IF a < b THEN a ELSE b

\* Rust's &s[a..b]: the elements at 0-based positions a .. b-1.
Slice(s, a, b) == SubSeq(s, a + 1, b)

\* &s[a..b] panics unless a <= b <= s.len().
SliceOk(s, a, b) == a <= b /\ b <= Len(s)

\* slice.chunks(size).len(): the last chunk may be short.
NumChunks(len, size) == (len + size - 1) \div size

----------------------------------------------------------------------------
\* FriUtilsGadget (fri_utils), the oracle and the combiner: interfaces only.

\* fri_helper.next_domain: the tracked log domain size drops by the
\* collapsing factor.
NextDomain(log) == log - input.collapsing_factor

\* fri_helper.get_coset_idx_for_natural_index: all but the lowest
\* collapsing_factor bits.
CosetIdx(ni) == Slice(ni, Min(input.collapsing_factor, Len(ni)), Len(ni))

\* fri_helper.get_coset_offset_for_natural_index: the lowest
\* collapsing_factor bits.
CosetOffset(ni) == Slice(ni, 0, Min(input.collapsing_factor, Len(ni)))

\* fri_helper.choose_element_in_coset: the value at position offset.
ChooseElement(values, offset) == values[BitsToNat(offset) + 1]

\* fri_helper.coset_interpolation_value: the coset's values combined
\* linearly with one challenge per position; of a longer challenge slice the
\* leading coset_size entries are the ones read.
CosetInterpolationValue(values, cidx, challenges) ==
    SumMod([i \in 1 .. Len(values) |-> (values[i] * challenges[i]) % Modulus])

\* fri_helper.get_combiner_eval_points: x_i for position i of the coset.
EvalPoint(cidx, i) == (BitsToNat(cidx) + i) % Modulus

\* fri_helper.get_bottom_layer_omega.
BottomLayerOmega == Modulus - 1

\* oracle.validate: whether the opening proof authenticates the values as
\* the coset cidx of the committed layer of size 2^log.
Validate(log, values, cidx, commitment, proof) == proof

\* upper_layer_combiner: the caller's batching function over the labeled
\* values and the evaluation point.
Combiner(labeled) == SumMod([j \in 1 .. Len(labeled) |-> labeled[j].data])

----------------------------------------------------------------------------
\* The inputs explored.

Label(j) == << "p1", "p2", "p3", "p4" >>[j]

CosetSize(cf) == Pow2(cf)

NaturalIndices(n) ==
    { [j \in 1 .. n |-> 1], [j \in 1 .. n |-> j % 2] }

\* The opening proofs of u upper-layer queries: all good, or one of them bad.
UpperQueries(cf) ==
    { [j \in 1 .. u |-> j # bad] : u \in 1 .. MaxUpper, bad \in 0 .. MaxUpper }

UpperQuery(cf, j, proof) ==
    [label |-> Label(j),
     data |-> [values |-> [i \in 1 .. CosetSize(cf) |-> (i + j) % Modulus],
               proof |-> proof]]

LayerValues(cf) ==
    { [i \in 1 .. CosetSize(cf) |-> 1],
      [i \in 1 .. CosetSize(cf) |-> (i - 1) % Modulus] }

\* k layer queries: any values, and all opening proofs good or one bad.
LayerQueries(cf) ==
    UNION { { [j \in 1 .. k |-> [values |-> vs[j], proof |-> j # bad]]
              : vs \in [1 .. k -> LayerValues(cf)], bad \in 0 .. k }
            : k \in 0 .. MaxLayers }

Challenges(cf, chunks) ==
    [j \in 1 .. chunks * CosetSize(cf) |->
        1 + (((j - 1) \div CosetSize(cf)) % 2)]

\* << commitments short of the queries, challenge chunks beyond one per fold >>.
Shapes == { << 0, 0 >>, << 1, 0 >>, << 0, -1 >>, << 0, 1 >> }

FinalCoefficients == { << >>, << 1 >>, << 2 >>, << 1, 0 >>, << 0, 1 >> }

Round(cf, n, ni, up, missing, qs, fewer, chunks, fc) ==
    [collapsing_factor |-> cf,
     initial_domain_size |-> Pow2(n),
     natural_first_element_index |-> ni,
     upper_layer_queries |-> [j \in 1 .. Len(up) |-> UpperQuery(cf, j, up[j])],
     upper_layer_commitments |->
         [j \in 1 .. Len(up) - missing |-> [label |-> Label(j), data |-> j]],
     queries |-> qs,
     commitments |-> [j \in 1 .. Len(qs) - fewer |-> j],
     fri_challenges |-> Challenges(cf, chunks),
     final_coefficients |-> fc]

\* The initial log2 of the domain: the helper is built for
\* initial_domain_size, and the natural index has one bit per level.
InitialLog == Len(input.natural_first_element_index)

Terminal == { "done", "err", "panic" }

Init ==
    /\ \E cf \in 1 .. MaxCF : \E n \in cf .. MaxLog :
       \E ni \in NaturalIndices(n) : \E up \in UpperQueries(cf) :
       \E missing \in 0 .. 1 : \E qs \in LayerQueries(cf) :
       \E shape \in Shapes : \E fc \in FinalCoefficients :
          /\ shape[1] <= Len(qs)
          /\ input = Round(cf, n, ni, up, missing, qs, shape[1],
                           Len(qs) + 1 + shape[2], fc)
          /\ log_domain_size = n
          /\ start_log = n
    /\ pc = "start"
    /\ natural_index = << >>
    /\ coset_idx = << >>
    /\ idx = 0
    /\ layer = 0
    /\ final_result = TRUE
    /\ previous_layer_element = 0
    /\ result = << >>
    /\ checks = << >>
    /\ trace = << >>
    /\ interp_challenges = << >>
    /\ advances = 0
    /\ run = 1
    /\ first_run = [pc |-> "none", result |-> << >>, trace |-> << >>]
    /\ vp_result = << >>

----------------------------------------------------------------------------
\* verify_single_proof_round.

coset_size == Pow2(input.collapsing_factor)

\* The accumulator overwritten by the latest check instead of ANDed with it.
AccumulateOverwrite(acc, check) == check

\* final_result = Boolean::and(&final_result, &check)
Accumulate(acc, check) == acc /\ check

\* A missing label reported as a rejected proof instead of an error.
MissingLabelAsFalse == [pc |-> "done", result |-> << FALSE >>]

\* .ok_or(SynthesisError::Unknown)? on a label with no commitment: the
\* round returns Err and no Boolean.
MissingLabelOutcome == [pc |-> "err", result |-> << >>]

\* upper_layer_commitments.iter().position(|x| x.label == *label): 0 for None.
CommitmentPosition(label) ==
    LET hits == { j \in 1 .. Len(input.upper_layer_commitments) :
                    input.upper_layer_commitments[j].label = label }
    IN  IF hits = {} THEN 0 ELSE CHOOSE j \in hits : \A h \in hits : j <= h

\* Lines 75-81.
Start ==
    /\ pc = "start"
    /\ natural_index' = input.natural_first_element_index
    /\ coset_idx' = CosetIdx(input.natural_first_element_index)
    /\ final_result' = TRUE
    /\ idx' = 0
    /\ pc' = "upper"
    /\ UNCHANGED << input, log_domain_size, layer, previous_layer_element,
                    result, checks, trace, interp_challenges, advances,
                    start_log, run, first_run, vp_result >>

\* One iteration of the loop over upper_layer_queries, lines 83-98.
UpperStep ==
    /\ pc = "upper"
    /\ idx < Len(input.upper_layer_queries)
    /\ LET labeled_query == input.upper_layer_queries[idx + 1]
           commitment_idx == CommitmentPosition(labeled_query.label)
       IN  IF commitment_idx = 0
           THEN /\ pc' = MissingLabelOutcome.pc
                /\ result' = MissingLabelOutcome.result
                /\ UNCHANGED << idx, final_result, checks >>
           ELSE LET oracle_check ==
                        Validate(log_domain_size, labeled_query.data.values,
                                 coset_idx,
                                 input.upper_layer_commitments[commitment_idx].data,
                                 labeled_query.data.proof)
                IN  /\ final_result' = Accumulate(final_result, oracle_check)
                    /\ checks' = Append(checks, oracle_check)
                    /\ idx' = idx + 1
                    /\ pc' = "upper"
                    /\ UNCHANGED result
    /\ UNCHANGED << input, log_domain_size, natural_index, coset_idx, layer,
                    previous_layer_element, trace, interp_challenges,
                    advances, start_log, run, first_run, vp_result >>

\* The combined values of the top coset, lines 115-133.
CombinedValues ==
    [i \in 1 .. coset_size |->
        Combiner([j \in 1 .. Len(input.upper_layer_queries) + 1 |->
            IF j <= Len(input.upper_layer_queries)
            THEN [label |-> input.upper_layer_queries[j].label,
                  data |-> input.upper_layer_queries[j].data.values[i]]
            ELSE [label |-> "ev_p", data |-> EvalPoint(coset_idx, i)]])]

\* Combiner and first interpolation, lines 115-140.
CombineStep ==
    /\ pc = "upper"
    /\ idx = Len(input.upper_layer_queries)
    /\ IF ~SliceOk(input.fri_challenges, 0, coset_size)
       THEN /\ pc' = "panic"
            /\ UNCHANGED << previous_layer_element, trace, interp_challenges >>
       ELSE LET challenges == Slice(input.fri_challenges, 0, coset_size)
                folded == CosetInterpolationValue(CombinedValues, coset_idx,
                                                  challenges)
            IN  /\ previous_layer_element' = folded
                /\ interp_challenges' = Append(interp_challenges, challenges)
                /\ trace' = Append(trace,
                       [step |-> "top", log |-> log_domain_size,
                        natural_index |-> natural_index,
                        coset_idx |-> coset_idx, folded |-> folded])
                /\ pc' = "layers"
    /\ UNCHANGED << input, log_domain_size, natural_index, coset_idx, idx,
                    layer, final_result, result, checks, advances, start_log,
                    run, first_run, vp_result >>

\* Iterations of queries.zip(commitments).zip(fri_challenges.chunks(coset_size).skip(1)):
\* the shortest of the three.
LoopBound ==
    LET chunks == NumChunks(Len(input.fri_challenges), coset_size)
    IN  Min(Min(Len(input.queries), Len(input.commitments)),
            IF chunks > 0 THEN chunks - 1 ELSE 0)

\* The loop body without its next_domain call.
ShrinkForLayerSkipped == log_domain_size

\* fri_helper.next_domain(..) at the head of the loop body, line 146.
ShrinkForLayer == NextDomain(log_domain_size)

\* The bounds of natural_index[collapsing_factor..fri_helper.get_log_domain_size()],
\* lines 149 and 200, for the helper's log domain size log.
NaturalIndexFrom == input.collapsing_factor
NaturalIndexTo(log) == log

\* The challenges handed to the interpolation of fold-loop iteration k, line 185.
LayerChallenges(k) == input.fri_challenges

\* One iteration of the fold loop, lines 142-187.
LayerStep ==
    /\ pc = "layers"
    /\ layer < LoopBound
    /\ LET query == input.queries[layer + 1]
           commitment == input.commitments[layer + 1]
           log == ShrinkForLayer
       IN  /\ log_domain_size' = log
           /\ advances' = advances + 1
           /\ IF ~SliceOk(natural_index, NaturalIndexFrom, NaturalIndexTo(log))
              THEN /\ pc' = "panic"
                   /\ UNCHANGED << natural_index, layer, final_result,
                                   previous_layer_element, checks, trace,
                                   interp_challenges >>
              ELSE LET ni == Slice(natural_index, NaturalIndexFrom,
                                   NaturalIndexTo(log))
                       cidx == CosetIdx(ni)
                       offset == CosetOffset(ni)
                       oracle_check == Validate(log, query.values, cidx,
                                                commitment, query.proof)
                       cur_layer_element == ChooseElement(query.values, offset)
                       rcc_flag == previous_layer_element = cur_layer_element
                       challenges == LayerChallenges(layer + 1)
                       folded == CosetInterpolationValue(query.values, cidx,
                                                         challenges)
                   IN  /\ natural_index' = ni
                       /\ final_result' =
                              Accumulate(Accumulate(final_result, oracle_check),
                                         rcc_flag)
                       /\ checks' = checks \o << oracle_check, rcc_flag >>
                       /\ previous_layer_element' = folded
                       /\ interp_challenges' =
                              Append(interp_challenges, challenges)
                       /\ trace' = Append(trace,
                              [step |-> "layer", log |-> log,
                               natural_index |-> ni, coset_idx |-> cidx,
                               folded |-> folded])
                       /\ layer' = layer + 1
                       /\ pc' = "layers"
    /\ UNCHANGED << input, coset_idx, idx, result, start_log, run, first_run,
                    vp_result >>

\* The final polynomial at ev_p: running_sum = c_0 + sum of c_i * ev_p^i,
\* lines 208-218.
FinalPolyValue(coeffs, ev_p) ==
    SumMod([j \in 1 .. Len(coeffs) |-> (coeffs[j] * PowMod(ev_p, j - 1)) % Modulus])

\* Whether the final check advances the domain first, line 193.
FinalNeedsDomain == Len(input.final_coefficients) # 1

\* The final consistency check and the return, lines 192-228.
FinalStep ==
    /\ pc = "layers"
    /\ layer = LoopBound
    /\ IF Len(input.final_coefficients) = 0
       THEN /\ pc' = "panic"
            /\ UNCHANGED << log_domain_size, natural_index, final_result,
                            result, checks, trace, advances >>
       ELSE IF ~FinalNeedsDomain
       THEN LET val == input.final_coefficients[1]
                flag == previous_layer_element = val
            IN  /\ final_result' = Accumulate(final_result, flag)
                /\ result' = << final_result' >>
                /\ checks' = Append(checks, flag)
                /\ pc' = "done"
                /\ UNCHANGED << log_domain_size, natural_index, trace, advances >>
       ELSE LET log == NextDomain(log_domain_size)
            IN  /\ log_domain_size' = log
                /\ advances' = advances + 1
                /\ IF ~SliceOk(natural_index, NaturalIndexFrom, NaturalIndexTo(log))
                   THEN /\ pc' = "panic"
                        /\ UNCHANGED << natural_index, final_result, result,
                                        checks, trace >>
                   ELSE LET ni == Slice(natural_index, NaturalIndexFrom,
                                        NaturalIndexTo(log))
                            ev_p == PowMod(BottomLayerOmega, BitsToNat(ni))
                            val == FinalPolyValue(input.final_coefficients, ev_p)
                            flag == previous_layer_element = val
                        IN  /\ natural_index' = ni
                            /\ final_result' = Accumulate(final_result, flag)
                            /\ result' = << final_result' >>
                            /\ checks' = Append(checks, flag)
                            /\ trace' = Append(trace,
                                   [step |-> "final", log |-> log,
                                    natural_index |-> ni, coset_idx |-> << >>,
                                    folded |-> val])
                            /\ pc' = "done"
    /\ UNCHANGED << input, coset_idx, idx, layer, previous_layer_element,
                    interp_challenges, start_log, run, first_run, vp_result >>

\* The caller runs the round again on the same inputs and the same
\* fri_helper (the &mut FriUtilsGadget argument, line 59): nothing in the
\* round restores the helper, and initial_domain_size (line 68) is not read.
SecondRun ==
    /\ pc = "done"
    /\ run = 1
    /\ first_run' = [pc |-> pc, result |-> result, trace |-> trace]
    /\ run' = 2
    /\ start_log' = log_domain_size
    /\ pc' = "start"
    /\ natural_index' = << >>
    /\ coset_idx' = << >>
    /\ idx' = 0
    /\ layer' = 0
    /\ final_result' = TRUE
    /\ previous_layer_element' = 0
    /\ result' = << >>
    /\ checks' = << >>
    /\ trace' = << >>
    /\ interp_challenges' = << >>
    /\ advances' = 0
    /\ UNCHANGED << input, log_domain_size, vp_result >>

----------------------------------------------------------------------------
\* verify_proof, lines 232-309: final_result is Boolean::Constant(true) and
\* is returned as it is; the loop over query_rounds_data is commented out.
VerifyProof ==
    /\ pc \in Terminal
    /\ vp_result = << >>
    /\ vp_result' = << TRUE >>
    /\ UNCHANGED << input, log_domain_size, pc, natural_index, coset_idx, idx,
                    layer, final_result, previous_layer_element, result,
                    checks, trace, interp_challenges, advances, start_log,
                    run, first_run >>

Next ==
    \/ Start
    \/ UpperStep
    \/ CombineStep
    \/ LayerStep
    \/ FinalStep
    \/ SecondRun
    \/ VerifyProof

Spec == Init /\ [][Next]_vars

----------------------------------------------------------------------------
\* Properties.

AllTrue(bs) == \A j \in 1 .. Len(bs) : bs[j]

NumUpper == Len(input.upper_layer_queries)

\* One commitment per layer query and one challenge chunk per fold step.
WellFormedLengths ==
    /\ Len(input.commitments) = Len(input.queries)
    /\ Len(input.fri_challenges) = (Len(input.queries) + 1) * coset_size

SomeLabelMissing ==
    \E j \in 1 .. NumUpper :
        CommitmentPosition(input.upper_layer_queries[j].label) = 0

\* The domain left after the folds of the top layer and of every layer query
\* has at least one point per final coefficient.
DomainHoldsFolds ==
    LET folded == (Len(input.queries) + 1) * input.collapsing_factor
    IN  /\ InitialLog >= folded
        /\ Pow2(InitialLog - folded) >= Len(input.final_coefficients)

\* The round ended in its final check: after the first interpolation and
\* every iteration of the fold loop.
EndedInFinalCheck ==
    /\ pc \in Terminal
    /\ layer = LoopBound
    /\ Len(interp_challenges) = layer + 1

\* C1: the Boolean a round returns is the AND of every check it evaluated:
\* one oracle check per upper-layer query, an oracle check and a
\* round-consistency check per fold-loop iteration, and the final
\* consistency check; with well-formed lengths every layer query is checked.
C1_FlagIsAndOfChecks ==
    pc = "done" =>
        /\ result = << AllTrue(checks) >>
        /\ Len(checks) = NumUpper + 2 * layer + 1
        /\ WellFormedLengths => layer = Len(input.queries)

\* A returned round in which exactly one check, a layer's oracle check or
\* round-consistency check, is false.
C1_Witness ==
    /\ pc = "done"
    /\ run = 1
    /\ layer >= 1
    /\ result = << FALSE >>
    /\ \E j \in NumUpper + 1 .. Len(checks) - 1 :
          /\ ~checks[j]
          /\ \A h \in 1 .. Len(checks) : h # j => checks[h]

\* C2: verify_proof returns the AND of the rounds' flags; here
\* query_rounds_data holds the one round that was run, so the result of
\* verify_proof is that round's flag.
C2_VerifyProofIsAndOfRounds ==
    (vp_result # << >> /\ pc = "done" /\ run = 1) => vp_result = result

\* C3: with every label present, well-formed lengths and a final domain that
\* holds the final polynomial, a round with a false check still runs every
\* layer and returns Ok(false).
C3_FalseCheckNeverAborts ==
    ( /\ pc \in Terminal
      /\ run = 1
      /\ ~SomeLabelMissing
      /\ WellFormedLengths
      /\ Len(input.final_coefficients) >= 1
      /\ DomainHoldsFolds
      /\ ~AllTrue(checks) )
    => /\ pc = "done"
       /\ result = << FALSE >>
       /\ layer = Len(input.queries)

\* C4: a round with an upper-layer label that matches no commitment ends in
\* Err and returns no Boolean, and Err comes from nothing else.
C4_MissingLabelIsError ==
    /\ (SomeLabelMissing /\ pc \notin { "start", "upper" })
           => (pc = "err" /\ result = << >>)
    /\ pc = "err" => (SomeLabelMissing /\ result = << >>)

\* An upper-layer query was validated and the next one's label is missing.
C4_Witness ==
    /\ pc = "err"
    /\ idx >= 1
    /\ result = << >>

\* C5: with fewer challenge chunks than fold steps the round aborts: it
\* never returns a flag.
C5_ChunkMismatchIsFatal ==
    NumChunks(Len(input.fri_challenges), coset_size) < Len(input.queries) + 1
        => pc # "done"

\* C6: the domain is advanced once per fold-loop iteration and once more
\* before a final check over several coefficients: the log domain size used
\* after k fold steps is the round's initial one less k * collapsing_factor.
C6_DomainShrink ==
    /\ \A j \in 1 .. Len(trace) :
          trace[j].log = start_log - (j - 1) * input.collapsing_factor
    /\ log_domain_size = start_log - advances * input.collapsing_factor
    /\ pc = "done" =>
          advances = layer + (IF Len(input.final_coefficients) > 1 THEN 1 ELSE 0)
    /\ pc = "layers" => advances = layer

\* A returned round with a layer query and a final check that advanced the
\* domain once more.
C6_Witness ==
    /\ pc = "done"
    /\ run = 1
    /\ layer >= 1
    /\ advances = layer + 1
    /\ log_domain_size = InitialLog - (layer + 1) * input.collapsing_factor

\* C7: a round that ends in the final check over [c] or over [c, 0] returns,
\* and its final consistency check is true exactly when the last folded
\* value is c.
C7_DegenerateFinalLayer ==
    ( /\ EndedInFinalCheck
      /\ run = 1
      /\ DomainHoldsFolds
      /\ \/ Len(input.final_coefficients) = 1
         \/ /\ Len(input.final_coefficients) = 2
            /\ input.final_coefficients[2] = 0 )
    => /\ pc = "done"
       /\ checks[Len(checks)] =
              (previous_layer_element = input.final_coefficients[1])

\* C8: the second run on identical inputs starts from the initial domain
\* size and repeats the first: the same domain size, natural index, coset
\* index and folded value at every step, and the same outcome.
C8_SecondRunIdentical ==
    run = 2 =>
        /\ start_log = InitialLog
        /\ pc \in Terminal =>
              /\ pc = first_run.pc
              /\ result = first_run.result
              /\ trace = first_run.trace

\* C9: the j-th interpolation of a round reads the j-th challenge chunk,
\* fri_challenges[(j-1)*coset_size .. j*coset_size), and nothing else.
C9_OwnChallengeChunk ==
    \A j \in 1 .. Len(interp_challenges) :
        interp_challenges[j] =
            Slice(input.fri_challenges, (j - 1) * coset_size, j * coset_size)

\* C10: after k fold steps the natural index in use is the original bits
\* k*collapsing_factor .. n-1, as many as the current log domain size.
C10_LowBitsStripped ==
    run = 1 =>
        \A j \in 1 .. Len(trace) :
            /\ trace[j].natural_index =
                   Slice(input.natural_first_element_index,
                         (j - 1) * input.collapsing_factor, InitialLog)
            /\ Len(trace[j].natural_index) = trace[j].log
====
